---- MODULE Spec2Model ----
(***************************************************************************)
(* Phononic band gap detection of sfepy/homogenization/coefs_phononic.py:  *)
(* describe_gaps, find_zero, AcousticMassTensor and detect_band_gaps.      *)
(*                                                                         *)
(* Numbers.  Eigenvalues of the mass tensor are exact extended rationals   *)
(* <<n, d>> (d > 0 finite, <<1,0>> = +inf, <<-1,0>> = -inf, <<0,0>> = nan, *)
(* with numpy's rules for division by zero).  Frequencies are binary       *)
(* floating point numbers with a MantBits-bit significand, written as the  *)
(* integer multiple of the smallest spacing they denote; every sum and     *)
(* difference of frequencies is rounded to nearest, ties to even, as the   *)
(* float64 arithmetic of the code is.                                      *)
(***************************************************************************)
EXTENDS Integers, Sequences, FiniteSets, TLC

VARIABLES
    gaps,    \* describe_gaps' argument / detect_band_gaps' list `gaps`
    dres,    \* outcome of describe_gaps: [status, err, kinds]
    fz,      \* the frame of the running find_zero call
    cb,      \* the eigenvalues the callback has returned, by frequency
    cbp,     \* what the callback is: [kind, ...parameters]
    mass,    \* the AcousticMassTensor instance (and the data it was built from)
    ev,      \* record of the evaluate() calls made on it
    det,     \* the frame of detect_band_gaps
    app      \* the frame of the other call being made: Eigenmomenta,
             \* compute_eigenmomenta, DensityVolumeInfo or the BandGaps set-up

vars == <<gaps, dres, fz, cb, cbp, mass, ev, det, app>>

----------------------------------------------------------------------------
(* Bounds of the model. *)

\* significand bits of the modelled floating point format (float64: 53)
MantBits == 3
\* largest frequency drawn as an input
MaxFreq == 12
\* total number of boundary pairs in an input of describe_gaps
MaxPairs == 2
\* largest frequency tolerance feps drawn as an input
MaxFeps == 2
\* number of evaluate() calls made on one mass tensor instance
MaxEvals == 3
\* the sample counts 100 and 1000 of detect_band_gaps, scaled down
MinNum == 3
MaxNum == 4
\* the relative offset 1e-8 of the two samples of a narrow interval is
\* modelled as 1 / TinyDen
TinyDen == 8
\* largest number of eigenvectors given to compute_eigenmomenta
MaxEigs == 3
\* largest number of regions of region_to_material
MaxRegions == 2
\* largest resonance frequency (square root of an eigenvalue) drawn for the
\* set-up of BandGaps
MaxRes == 3
\* the relative tolerance 1e-14 of DensityVolumeInfo is modelled as
\* 1 / VolTolDen
VolTolDen == 4

----------------------------------------------------------------------------
(* Extended rationals. *)

Abs(x) == IF x < 0 THEN -x ELSE x

Sgn(x) == IF x < 0 THEN -1 ELSE IF x > 0 THEN 1 ELSE 0

RECURSIVE Gcd(_, _)
Gcd(a, b) == IF b = 0 THEN a ELSE Gcd(b, a % b)

\* n/d in lowest terms; d = 0 gives +inf, -inf or nan by the sign of n
Q(n, d) ==
    IF d = 0 THEN <<Sgn(n), 0>>
    ELSE LET s == IF d < 0 THEN -1 ELSE 1
             g == Gcd(Abs(n), Abs(d))
         IN  <<(s * n) \div g, (s * d) \div g>>

QI(n) == <<n, 1>>
QInf == <<1, 0>>
QNan == <<0, 0>>

QIsNan(a) == a[2] = 0 /\ a[1] = 0
QIsFinite(a) == a[2] # 0

QNeg(a) == <<-a[1], a[2]>>
QAbs(a) == <<Abs(a[1]), a[2]>>

QAdd(a, b) ==
    IF QIsNan(a) \/ QIsNan(b) THEN QNan
    ELSE IF a[2] = 0 /\ b[2] = 0 THEN (IF a[1] = b[1] THEN a ELSE QNan)
    ELSE IF a[2] = 0 THEN a
    ELSE IF b[2] = 0 THEN b
    ELSE Q(a[1] * b[2] + b[1] * a[2], a[2] * b[2])

QSub(a, b) == QAdd(a, QNeg(b))

QMul(a, b) ==
    IF QIsNan(a) \/ QIsNan(b) THEN QNan
    ELSE IF a[2] = 0 \/ b[2] = 0 THEN <<Sgn(a[1]) * Sgn(b[1]), 0>>
    ELSE Q(a[1] * b[1], a[2] * b[2])

\* numpy's true division: x/0 = +-inf, 0/0 = nan, x/inf = 0, inf/inf = nan
QDiv(a, b) ==
    IF QIsNan(a) \/ QIsNan(b) THEN QNan
    ELSE IF b[2] = 0 THEN (IF a[2] = 0 THEN QNan ELSE QI(0))
    ELSE IF b[1] = 0 THEN <<Sgn(a[1]), 0>>
    ELSE IF a[2] = 0 THEN <<Sgn(a[1]) * Sgn(b[1]), 0>>
    ELSE Q(a[1] * b[2], a[2] * b[1])

\* a < b; every comparison with nan is false
QLt(a, b) ==
    IF QIsNan(a) \/ QIsNan(b) THEN FALSE
    ELSE IF a[2] = 0 /\ b[2] = 0 THEN a[1] < b[1]
    ELSE IF a[2] = 0 THEN a[1] < 0
    ELSE IF b[2] = 0 THEN b[1] > 0
    ELSE a[1] * b[2] < b[1] * a[2]

QLe(a, b) == QLt(a, b) \/ (~QIsNan(a) /\ a = b)

----------------------------------------------------------------------------
(* Floating point frequencies. *)

RECURSIVE Pow2(_)
Pow2(k) == IF k = 0 THEN 1 ELSE 2 * Pow2(k - 1)

\* the spacing of the floats around n >= 0
RECURSIVE UlpFrom(_, _)
UlpFrom(n, u) == IF n < u * Pow2(MantBits) THEN u ELSE UlpFrom(n, 2 * u)

Ulp(n) == UlpFrom(n, 1)

IsFloat(n) == n >= 0 /\ n % Ulp(n) = 0

\* the exact value n/d >= 0 rounded to the nearest float, ties to the even
\* significand
RNQ(n, d) ==
    LET u == Ulp(n \div d)
        q == n \div (d * u)
        r == n - q * d * u
        up == (2 * r > d * u) \/ (2 * r = d * u /\ q % 2 = 1)
    IN  (IF up THEN q + 1 ELSE q) * u

RN(n) == RNQ(n, 1)

FAdd(a, b) == RN(a + b)
\* a - b; for a < b the negative difference is kept exactly
FSub(a, b) == RN(a - b)
\* 0.5 * x
FHalf(x) == RNQ(x, 2)

Floats == {n \in 0..MaxFreq : IsFloat(n)}

----------------------------------------------------------------------------
(* describe_gaps.  A boundary is <<flag, frequency, eigenvalue>>; a gap is *)
(* one pair (a tuple in the code) or a list of pairs.                      *)

Boundary(flag, f, v) == <<flag, f, v>>

PairGap(gmin, gmax) == [isList |-> FALSE, items |-> <<<<gmin, gmax>>>>]
ListGap(pairs) == [isList |-> TRUE, items |-> pairs]

Unbound == "unbound"

\* the if/elif chain of a sub-gap: no else branch, `kind` keeps its value
SubKind(kind, gmin, gmax) ==
    IF gmin[1] = 2 /\ gmax[1] = 2 THEN "p"
    ELSE IF gmin[1] = 1 /\ gmax[1] = 1 THEN "is"
    ELSE IF gmin[1] = 0 /\ gmax[1] = 2 THEN "iw"
    ELSE kind

\* the if/elif/else chain of a single pair; "raise" is the else branch
PairKindMutant(gmin, gmax) ==
    IF gmin[1] = 2 /\ gmax[1] = 2 THEN "p"
    ELSE IF gmin[1] = 1 /\ gmax[1] = 2 THEN "w"
    ELSE IF gmin[1] = 0 /\ gmax[1] = 2 THEN "wp"
    ELSE IF gmin[1] = 1 /\ gmax[1] = 1 THEN "s"
    ELSE IF gmin[1] = 0 /\ gmax[1] = 1 THEN "sw"
    ELSE IF gmin[1] = 0 /\ gmax[1] = 0 THEN "swp"
    ELSE "raise"

PairKind(gmin, gmax) ==
    IF gmin[1] = 2 /\ gmax[1] = 2 THEN "p"
    ELSE IF gmin[1] = 1 /\ gmax[1] = 2 THEN "w"
    ELSE IF gmin[1] = 0 /\ gmax[1] = 2 THEN "wp"
    ELSE IF gmin[1] = 1 /\ gmax[1] = 1 THEN "s"
    ELSE IF gmin[1] = 1 /\ gmax[1] = 0 THEN "sw"
    ELSE IF gmin[1] = 0 /\ gmax[1] = 0 THEN "swp"
    ELSE "raise"

\* the inner loop over a list of sub-gaps, from item j on: the sub-kinds
\* collected and the value `kind` is left with; appending an unbound local
\* raises UnboundLocalError
RECURSIVE DescribeSub(_, _, _, _)
DescribeSub(items, j, kind, subkinds) ==
    IF j > Len(items) THEN [status |-> "ok", kind |-> kind, subkinds |-> subkinds]
    ELSE LET k == SubKind(kind, items[j][1], items[j][2])
         IN  IF k = Unbound
             THEN [status |-> "UnboundLocalError", kind |-> kind,
                   subkinds |-> subkinds]
             ELSE DescribeSub(items, j + 1, k, Append(subkinds, k))

KindEntry(k) == [isList |-> FALSE, items |-> <<k>>]
KindListMutant(ks) == [isList |-> TRUE, items |-> SubSeq(ks, 1, 1)]
KindList(ks) == [isList |-> TRUE, items |-> ks]

\* the outer loop from gap ii on.  The else branch formats two lists with
\* '%d', which raises TypeError before the ValueError is constructed.
RECURSIVE DescribeFrom(_, _, _, _)
DescribeFrom(gs, ii, kind, kinds) ==
    IF ii > Len(gs) THEN [status |-> "returned", err |-> "", kinds |-> kinds]
    ELSE IF gs[ii].isList
    THEN LET r == DescribeSub(gs[ii].items, 1, kind, <<>>)
         IN  IF r.status # "ok"
             THEN [status |-> "raised", err |-> r.status, kinds |-> <<>>]
             ELSE DescribeFrom(gs, ii + 1, r.kind,
                               Append(kinds, KindList(r.subkinds)))
    ELSE LET k == PairKind(gs[ii].items[1][1], gs[ii].items[1][2])
         IN  IF k = "raise"
             THEN [status |-> "raised", err |-> "TypeError", kinds |-> <<>>]
             ELSE DescribeFrom(gs, ii + 1, k, Append(kinds, KindEntry(k)))

describe_gaps(gs) == DescribeFrom(gs, 1, Unbound, <<>>)

NoResult == [status |-> "none", err |-> "", kinds |-> <<>>]

----------------------------------------------------------------------------
(* AcousticMassTensor.  data = [eigs, momenta, valid, rho, vol] are        *)
(* evp.eigs, ema.eigenmomenta (one row per eigenvalue), ema.valid,         *)
(* dv_info.average_density and dv_info.total_volume.                       *)

\* numpy's boolean mask indexing a[mask]: the entries whose mask is True
RECURSIVE Masked(_, _)
Masked(a, mask) ==
    IF a = <<>> THEN <<>>
    ELSE IF Head(mask) THEN <<Head(a)>> \o Masked(Tail(a), Tail(mask))
    ELSE Masked(Tail(a), Tail(mask))

\* __call__: keep the valid resonances
MassCallResultMutant(data) ==
    [st |-> "ready",
     eigs |-> Masked(data.eigs, data.valid),
     eigenmomenta |-> SubSeq(data.momenta, 1, Len(Masked(data.eigs, data.valid))),
     nc |-> data.nc,
     rho |-> data.rho,
     vol |-> data.vol]

MassCallResult(data) ==
    [st |-> "ready",
     eigs |-> Masked(data.eigs, data.valid),
     eigenmomenta |-> Masked(data.momenta, data.valid),
     nc |-> data.nc,
     rho |-> data.rho,
     vol |-> data.vol]

\* get_coefs: f2 = freq*freq; de = f2 - self.eigs
GetCoefsMutant(m, freq) ==
    LET f2 == QMul(freq, freq)
    IN  [num |-> f2, denom |-> [k \in 1..Len(m.eigs) |-> QSub(QI(m.eigs[k]), f2)]]

GetCoefs(m, freq) ==
    LET f2 == QMul(freq, freq)
    IN  [num |-> f2, denom |-> [k \in 1..Len(m.eigs) |-> QSub(f2, QI(m.eigs[k]))]]

\* nm.sum over a sequence of extended rationals
RECURSIVE QSum(_)
QSum(xs) == IF xs = <<>> THEN QI(0) ELSE QAdd(Head(xs), QSum(Tail(xs)))

\* nm.isfinite(denom).all()
AllFinite(denom) == \A k \in 1..Len(denom) : QIsFinite(denom[k])

\* evaluate(freq): the matrix returned, or the ValueError raised
Evaluate(m, freq) ==
    LET c == GetCoefs(m, freq)
        ema == m.eigenmomenta
        upper(ir, ic) ==
            QSum([k \in 1..Len(ema) |->
                    QMul(QDiv(c.num, c.denom[k]), QI(ema[k][ir] * ema[k][ic]))])
        fmass == [ir \in 1..m.nc |-> [ic \in 1..m.nc |->
                    IF ir <= ic THEN upper(ir, ic) ELSE upper(ic, ir)]]
        eye(ir, ic) == IF ir = ic THEN QI(1) ELSE QI(0)
    IN  IF ~AllFinite(c.denom)
        THEN [status |-> "raised", mtx |-> <<>>]
        ELSE [status |-> "ok",
              mtx |-> [ir \in 1..m.nc |-> [ic \in 1..m.nc |->
                        QSub(QMul(eye(ir, ic), QI(m.rho)),
                             QDiv(fmass[ir][ic], QI(m.vol)))]]]

\* the instance after evaluate(freq): evaluate assigns no attribute, and
\* get_coefs builds a new array de instead of updating self.eigs in place
AfterEvaluateMutant(m, freq) ==
    [m EXCEPT !.eigs = [k \in 1..Len(m.eigs) |-> m.eigs[k] + 1]]

AfterEvaluate(m, freq) == m

\* eig(mtx, eigenvectors=False) of a 1 x 1 matrix
Eig1(mtx) == <<mtx[1][1]>>

----------------------------------------------------------------------------
(* The callback: get_callback(mass.evaluate, ...) in mode 'find_zero' or   *)
(* 'trace' returns the eigenvalues of the mass tensor at f, in ascending   *)
(* order.  cb records what it has returned; a frequency asked again gives  *)
(* the same eigenvalues.                                                   *)

\* eigenvalues a free (unconstrained) callback may return
EigVals == {QI(-1), QI(0), QI(1)}

\* ascending sequences of nc eigenvalues
EigSeqs(nc) ==
    IF nc = 1 THEN {<<v>> : v \in EigVals}
    ELSE {pr \in EigVals \X EigVals : QLe(pr[1], pr[2])}

\* a callback linear in f with its zero at cbp.zero2 / 2
LinearEigs(f) == <<QI(cbp.slope * (2 * f - cbp.zero2))>>

\* cb with the value at f recorded
Memo(f, meigs) == [g \in DOMAIN cb \cup {f} |-> IF g = f THEN meigs ELSE cb[g]]

\* the tracked eigenvalue: ieig = {0 : 0, 1 : -1}[mode]
Tracked(meigs, mode) == IF mode = 0 THEN meigs[1] ELSE meigs[Len(meigs)]

----------------------------------------------------------------------------
(* find_zero(f0, f1, callback, feps, zeps, mode). *)

FzStartMutant(f0, f1, feps, zeps, mode) ==
    [st |-> "run", f0 |-> f0, f1 |-> f1, feps |-> feps, zeps |-> zeps,
     mode |-> mode, fm |-> IF mode = 0 THEN FHalf(FAdd(f0, f1)) ELSE f0,
     fp |-> f1, f |-> f0, val |-> QI(0),
     ret |-> <<>>]

FzStart(f0, f1, feps, zeps, mode) ==
    [st |-> "run", f0 |-> f0, f1 |-> f1, feps |-> feps, zeps |-> zeps,
     mode |-> mode, fm |-> f0, fp |-> f1, f |-> f0, val |-> QI(0),
     ret |-> <<>>]

\* f = 0.5 * (fm + fp)
Midpoint(fm, fp) == FHalf(FAdd(fm, fp))

\* (fp - fm) < (abs(fm) * nm.finfo(float).eps), eps = 2^(1 - MantBits)
WidthBelowEps(fm, fp) == FSub(fp, fm) * Pow2(MantBits - 1) < fm

\* (abs(val) < zeps) or the bracket is below machine precision
IsZero(val, zeps, fm, fp) == QLt(QAbs(val), zeps) \/ WidthBelowEps(fm, fp)

\* the endpoint tests of one step: the flag to return, or 3 to go on
EndFlagMutant(mode, f, f0, f1, feps) ==
    IF FSub(f, f0) < feps THEN 2
    ELSE IF FSub(f1, f) < feps THEN 1
    ELSE 3

EndFlag(mode, f, f0, f1, feps) ==
    IF mode = 0
    THEN IF FSub(f, f0) < feps THEN 2
         ELSE IF FSub(f1, f) < feps THEN 1
         ELSE 3
    ELSE IF FSub(f1, f) < feps THEN 1
         ELSE IF FSub(f, f0) < feps THEN 2
         ELSE 3

\* the frame after one pass of the while loop that evaluated meigs at f
FzAfterMutant(z, f, meigs) ==
    LET val == Tracked(meigs, z.mode)
        e == EndFlag(z.mode, f, z.f0, z.f1, z.feps)
        z1 == [z EXCEPT !.f = f, !.val = val]
    IN  IF IsZero(val, z.zeps, z.fm, z.fp)
        THEN [z1 EXCEPT !.st = "ret", !.ret = <<0, f, val>>]
        ELSE IF e = 2 THEN [z1 EXCEPT !.st = "ret", !.ret = <<2, z.f0, val>>]
        ELSE IF e = 1 THEN [z1 EXCEPT !.st = "ret", !.ret = <<1, z.f1, val>>]
        ELSE IF QLt(val, QI(0)) THEN [z1 EXCEPT !.fp = f]
        ELSE [z1 EXCEPT !.fm = f]

FzAfter(z, f, meigs) ==
    LET val == Tracked(meigs, z.mode)
        e == EndFlag(z.mode, f, z.f0, z.f1, z.feps)
        z1 == [z EXCEPT !.f = f, !.val = val]
    IN  IF IsZero(val, z.zeps, z.fm, z.fp)
        THEN [z1 EXCEPT !.st = "ret", !.ret = <<0, f, val>>]
        ELSE IF e = 2 THEN [z1 EXCEPT !.st = "ret", !.ret = <<2, z.f0, val>>]
        ELSE IF e = 1 THEN [z1 EXCEPT !.st = "ret", !.ret = <<1, z.f1, val>>]
        ELSE IF QLt(QI(0), val) THEN [z1 EXCEPT !.fp = f]
        ELSE [z1 EXCEPT !.fm = f]

FzIdle == [st |-> "idle"]
CbNone == [kind |-> "none"]
MassNone == [st |-> "none"]
DetIdle == [pc |-> "idle"]
AppNone == [st |-> "none"]

\* what callback(f) may return
CallbackValues(f) ==
    IF f \in DOMAIN cb THEN {cb[f]}
    ELSE IF cbp.kind = "free" THEN EigSeqs(cbp.nc)
    ELSE IF cbp.kind = "linear" THEN {LinearEigs(f)}
    ELSE {Eig1(Evaluate(mass, QI(f)).mtx)}

\* one pass of the while loop of find_zero
FZStep ==
    /\ fz.st = "run"
    /\ LET f == Midpoint(fz.fm, fz.fp)
       IN  \E meigs \in CallbackValues(f) :
               /\ fz' = FzAfter(fz, f, meigs)
               /\ cb' = Memo(f, meigs)
    /\ UNCHANGED <<gaps, dres, cbp, mass, ev, det, app>>

----------------------------------------------------------------------------
(* detect_band_gaps(mass, freq_info, opts, gap_kind). *)

Min(a, b) == IF a < b THEN a ELSE b
Max(a, b) == IF a > b THEN a ELSE b

\* num = min(1000, max(100, (f1 - f0) / df)), df = freq_step * (max - min),
\* freq_step = 1 / stepDen; linspace truncates num
NumSamples(f0, f1, fmv, stepDen) ==
    LET span == FSub(fmv[Len(fmv)], fmv[1])
    IN  Min(MaxNum, Max(MinNum, (FSub(f1, f0) * stepDen) \div span))

\* 0.5 * (sin((a - 0.5) * pi) + 1.0) for a in linspace(0, 1, n), in
\* thousandths
SinWarp(n) ==
    IF n = 2 THEN <<0, 1000>>
    ELSE IF n = 3 THEN <<0, 500, 1000>>
    ELSE IF n = 4 THEN <<0, 250, 750, 1000>>
    ELSE IF n = 5 THEN <<0, 146, 500, 854, 1000>>
    ELSE IF n = 6 THEN <<0, 95, 345, 655, 905, 1000>>
    ELSE [k \in 1..n |-> ((k - 1) * 1000) \div (n - 1)]

\* the sample frequencies of a wide interval ]f0, f1[:
\* f0 + feps + warp * (f1 - f0 - 2.0 * feps)
WideSamples(f0, f1, feps, num) ==
    LET w == FSub(FSub(f1, f0), 2 * feps)
    IN  [k \in 1..num |-> FAdd(FAdd(f0, feps), RNQ(SinWarp(num)[k] * w, 1000))]

\* the two samples of a narrow interval: f_mid -+ 1e-8 * f_delta
NarrowSamples(f0, f1) ==
    LET f_delta == FSub(f1, f0)
        f_mid == FHalf(FAdd(f0, f1))
    IN  <<RNQ(f_mid * TinyDen - f_delta, TinyDen),
          RNQ(f_mid * TinyDen + f_delta, TinyDen)>>

IsWide(f0, f1, feps) == FSub(f1, f0) > 2 * feps

\* nm.searchsorted(a, v): the bisection of numpy on the 0-based positions
\* lo..hi; on a sorted array the first position whose entry is >= v
RECURSIVE BinSearch(_, _, _, _)
BinSearch(a, v, lo, hi) ==
    IF lo >= hi THEN lo
    ELSE LET mid == lo + ((hi - lo) \div 2)
         IN  IF a[mid + 1] < v THEN BinSearch(a, v, mid + 1, hi)
             ELSE BinSearch(a, v, lo, mid)

SearchSorted(a, v) == BinSearch(a, v, 0, Len(a))

\* list.insert(i, x) with a 0-based index i
Insert(a, i, x) ==
    LET j == Min(i, Len(a))
    IN  SubSeq(a, 1, j) \o <<x>> \o SubSeq(a, j + 1, Len(a))

\* split_chunks(indx): the runs of consecutive numbers of an index vector
RECURSIVE ChunksFrom(_, _, _)
ChunksFrom(indx, ic0, ic) ==
    IF ic > Len(indx) THEN <<>>
    ELSE LET delta == IF ic = Len(indx) THEN 2 ELSE indx[ic + 1] - indx[ic]
         IN  IF delta > 1
             THEN <<SubSeq(indx, ic0, ic)>> \o ChunksFrom(indx, ic + 1, ic + 1)
             ELSE ChunksFrom(indx, ic0, ic + 1)

split_chunks(indx) == IF Len(indx) = 0 THEN <<>> ELSE ChunksFrom(indx, 1, 1)

\* the ascending sequence of the members of a set of indices (nm.where)
RECURSIVE Ascending(_)
Ascending(S) ==
    IF S = {} THEN <<>>
    ELSE LET m == CHOOSE x \in S : \A y \in S : x <= y
         IN  <<m>> \o Ascending(S \ {m})

\* the liquid branch: the gap of an interval traced as mevp at log_freqs
LiquidGap(log_freqs, mevp) ==
    LET n == Len(mevp)
        nc == Len(mevp[1])
        si == {k \in 1..n : QLt(mevp[k][1], QI(0))}
        li == {k \in 1..n : QLt(mevp[k][nc], QI(0))}
        wi == si \ li
        lf0 == log_freqs[1]
        lf1 == log_freqs[n]
        strong(ch) == <<Boundary(1, log_freqs[ch[1]], mevp[ch[1]][nc]),
                        Boundary(1, log_freqs[ch[Len(ch)]], mevp[ch[Len(ch)]][nc])>>
        weak(ch) == <<Boundary(0, log_freqs[ch[1]], mevp[ch[1]][nc]),
                      Boundary(2, log_freqs[ch[Len(ch)]], mevp[ch[Len(ch)]][nc])>>
        lch == split_chunks(Ascending(li))
        wch == split_chunks(Ascending(wi))
    IN  IF si = {}
        THEN PairGap(Boundary(2, lf0, mevp[1][1]), Boundary(2, lf0, mevp[1][nc]))
        ELSE IF Cardinality(li) = n
        THEN PairGap(Boundary(1, lf1, mevp[n][1]), Boundary(1, lf1, mevp[n][nc]))
        ELSE ListGap([k \in 1..Len(lch) |-> strong(lch[k])]
                     \o [k \in 1..Len(wch) |-> weak(wch[k])])

\* the normal branch before any root search: "p", "s" or "search"
EndCaseMutant(mevp) ==
    LET nc == Len(mevp[1])
    IN  IF QLe(QI(0), mevp[1][1]) THEN "p"
        ELSE IF QLe(mevp[Len(mevp)][nc], QI(0)) THEN "s"
        ELSE "search"

EndCase(mevp) ==
    LET nc == Len(mevp[1])
    IN  IF QLt(QI(0), mevp[1][1]) THEN "p"
        ELSE IF QLt(mevp[Len(mevp)][nc], QI(0)) THEN "s"
        ELSE "search"

DetStart(fmv, gap_kind, feps, zeps, stepDen) ==
    [pc |-> "interval", fmv |-> fmv, gap_kind |-> gap_kind, feps |-> feps,
     zeps |-> zeps, stepDen |-> stepDen, ii |-> 1,
     log_freqs |-> <<>>, llog_freqs |-> <<>>, log_mevp |-> <<>>,
     logs_freqs |-> <<>>, logs_eigs |-> <<>>,
     gmax |-> <<>>, err |-> ""]

\* the frame after gaps.append(gap) and the two logs[...].append at the end
\* of the loop body
DetAppendedMutant(d, log_freqs, log_mevp) ==
    [d EXCEPT !.pc = IF d.ii + 1 < Len(d.fmv) THEN "interval" ELSE "describe",
              !.ii = @ + 1,
              !.log_freqs = <<>>, !.llog_freqs = <<>>, !.log_mevp = <<>>,
              !.gmax = <<>>,
              !.logs_freqs = Append(@, log_freqs),
              !.logs_eigs = Append(@, IF @ = <<>> THEN log_mevp ELSE @[1])]

DetAppended(d, log_freqs, log_mevp) ==
    [d EXCEPT !.pc = IF d.ii + 1 < Len(d.fmv) THEN "interval" ELSE "describe",
              !.ii = @ + 1,
              !.log_freqs = <<>>, !.llog_freqs = <<>>, !.log_mevp = <<>>,
              !.gmax = <<>>,
              !.logs_freqs = Append(@, log_freqs),
              !.logs_eigs = Append(@, log_mevp)]

\* log_freqs of the interval ]f0, f1[
LogFreqs(f0, f1, fmv, feps, stepDen) ==
    IF IsWide(f0, f1, feps)
    THEN WideSamples(f0, f1, feps, NumSamples(f0, f1, fmv, stepDen))
    ELSE NarrowSamples(f0, f1)

\* the head of the loop body: the sample frequencies of interval ii
DetInterval ==
    /\ det.pc = "interval"
    /\ det' = [det EXCEPT
                 !.pc = "trace",
                 !.log_freqs = LogFreqs(det.fmv[det.ii], det.fmv[det.ii + 1],
                                        det.fmv, det.feps, det.stepDen),
                 !.log_mevp = <<>>]
    /\ UNCHANGED <<gaps, dres, fz, cb, cbp, mass, ev, app>>

\* one pass of `for f in log_freqs`: trace_callback(f)
DetTrace ==
    /\ det.pc = "trace"
    /\ LET k == Len(det.log_mevp) + 1
           f == det.log_freqs[k]
       IN  \E meigs \in CallbackValues(f) :
               /\ cb' = Memo(f, meigs)
               /\ det' = [det EXCEPT
                            !.log_mevp = Append(@, meigs),
                            !.pc = IF k = Len(det.log_freqs)
                                   THEN "classify" ELSE "trace"]
    /\ UNCHANGED <<gaps, dres, fz, cbp, mass, ev, app>>

\* liquid branch; squeeze() leaves a 1-D array when there is one eigenvalue
\* per sample, and mevp[:,0] then raises IndexError
DetLiquid ==
    /\ det.pc = "classify"
    /\ det.gap_kind = "liquid"
    /\ IF Len(det.log_mevp[1]) = 1
       THEN /\ det' = [det EXCEPT !.pc = "raised", !.err = "IndexError"]
            /\ gaps' = gaps
       ELSE /\ gaps' = Append(gaps, LiquidGap(det.log_freqs, det.log_mevp))
            /\ det' = DetAppended(det, det.log_freqs, det.log_mevp)
    /\ UNCHANGED <<dres, fz, cb, cbp, mass, ev, app>>

\* normal branch, decided from the end samples: no gap, full strong gap,
\* or the search for the zero of the largest eigenvalue is started
DetNormal ==
    /\ det.pc = "classify"
    /\ det.gap_kind = "normal"
    /\ LET n == Len(det.log_freqs)
           lf0 == det.log_freqs[1]
           lf1 == det.log_freqs[n]
           log0 == det.log_mevp[1]
           log1 == det.log_mevp[n]
           c == EndCase(det.log_mevp)
       IN  IF c = "p"
           THEN /\ gaps' = Append(gaps, PairGap(Boundary(2, lf0, log0[1]),
                                                Boundary(2, lf0, log0[Len(log0)])))
                /\ det' = DetAppended(det, det.log_freqs, det.log_mevp)
                /\ fz' = fz
           ELSE IF c = "s"
           THEN /\ gaps' = Append(gaps, PairGap(Boundary(1, lf1, log1[1]),
                                                Boundary(1, lf1, log1[Len(log1)])))
                /\ det' = DetAppended(det, det.log_freqs, det.log_mevp)
                /\ fz' = fz
           ELSE /\ gaps' = gaps
                /\ det' = [det EXCEPT !.pc = "fzmax", !.llog_freqs = det.log_freqs]
                /\ fz' = FzStart(lf0, lf1, det.feps, det.zeps, 1)
    /\ UNCHANGED <<dres, cb, cbp, mass, ev, app>>

\* after find_zero(..., 1) returned: fmax goes into the log; the search for
\* the smallest eigenvalue follows for flags 0 and 2, flag 1 is reused
DetAfterMaxMutant ==
    /\ det.pc = "fzmax"
    /\ fz.st = "ret"
    /\ LET smax == fz.ret[1]
           fmax == fz.ret[2]
           vmax == fz.ret[3]
           im == SearchSorted(det.log_freqs, fmax)
           lf0 == det.log_freqs[1]
           lf1 == det.log_freqs[Len(det.log_freqs)]
       IN  \E meigs \in CallbackValues(fmax) :
            LET llog == Insert(det.llog_freqs, im, fmax)
                mevp == Insert(det.log_mevp, im, meigs)
            IN  /\ cb' = Memo(fmax, meigs)
                /\ IF smax = 0
                   THEN /\ fz' = FzStart(lf0, lf1, det.feps, det.zeps, 0)
                        /\ det' = [det EXCEPT !.pc = "fzmin", !.llog_freqs = llog,
                                              !.log_mevp = mevp, !.gmax = fz.ret]
                        /\ gaps' = gaps
                   ELSE /\ fz' = FzIdle
                        /\ gaps' = Append(gaps, PairGap(Boundary(1, fmax, vmax),
                                                        Boundary(smax, fmax, vmax)))
                        /\ det' = DetAppended(det, llog, mevp)
    /\ UNCHANGED <<dres, cbp, mass, ev, app>>

DetAfterMax ==
    /\ det.pc = "fzmax"
    /\ fz.st = "ret"
    /\ LET smax == fz.ret[1]
           fmax == fz.ret[2]
           vmax == fz.ret[3]
           im == SearchSorted(det.log_freqs, fmax)
           lf0 == det.log_freqs[1]
           lf1 == det.log_freqs[Len(det.log_freqs)]
       IN  \E meigs \in CallbackValues(fmax) :
            LET llog == Insert(det.llog_freqs, im, fmax)
                mevp == Insert(det.log_mevp, im, meigs)
            IN  /\ cb' = Memo(fmax, meigs)
                /\ IF smax \in {0, 2}
                   THEN /\ fz' = FzStart(lf0, lf1, det.feps, det.zeps, 0)
                        /\ det' = [det EXCEPT !.pc = "fzmin", !.llog_freqs = llog,
                                              !.log_mevp = mevp, !.gmax = fz.ret]
                        /\ gaps' = gaps
                   ELSE /\ fz' = FzIdle
                        /\ gaps' = Append(gaps, PairGap(Boundary(1, fmax, vmax),
                                                        Boundary(smax, fmax, vmax)))
                        /\ det' = DetAppended(det, llog, mevp)
    /\ UNCHANGED <<dres, cbp, mass, ev, app>>

\* after find_zero(..., 0) returned: fmin goes into the log one place after
\* its position in the original samples, and the gap is appended
DetAfterMin ==
    /\ det.pc = "fzmin"
    /\ fz.st = "ret"
    /\ LET fmin == fz.ret[2]
           im == SearchSorted(det.log_freqs, fmin)
       IN  \E meigs \in CallbackValues(fmin) :
            /\ cb' = Memo(fmin, meigs)
            /\ fz' = FzIdle
            /\ gaps' = Append(gaps, PairGap(fz.ret, det.gmax))
            /\ det' = DetAppended(det, Insert(det.llog_freqs, im + 1, fmin),
                                  Insert(det.log_mevp, im + 1, meigs))
    /\ UNCHANGED <<dres, cbp, mass, ev, app>>

\* kinds = describe_gaps(gaps)
DetDescribe ==
    /\ det.pc = "describe"
    /\ dres' = describe_gaps(gaps)
    /\ det' = [det EXCEPT !.pc = IF dres'.status = "returned"
                                 THEN "done" ELSE "raised",
                          !.err = dres'.err]
    /\ UNCHANGED <<gaps, fz, cb, cbp, mass, ev, app>>

----------------------------------------------------------------------------
(* Specification of describe_gaps alone: Init draws the argument, the one  *)
(* action is the call.                                                     *)

FlagPairs == (0..2) \X (0..2)

\* frequency and eigenvalue carried by the boundaries of the k-th pair of an
\* input, in two variants that differ in every frequency and eigenvalue
DressPair(fl, k, variant) ==
    <<Boundary(fl[1], k + variant, QI(variant - 1)),
      Boundary(fl[2], k + 1 + 2 * variant, QI(1 - 2 * variant))>>

RECURSIVE FlagSeqs(_)
FlagSeqs(n) ==
    IF n = 0 THEN {<<>>}
    ELSE {Append(s, fl) : s \in FlagSeqs(n - 1), fl \in FlagPairs}

\* the shapes of an input: each gap is "pair" or a list of k >= 1 sub-gaps,
\* given as the sequence of sizes (0 for a pair), total pairs at most n
RECURSIVE Shapes(_)
Shapes(n) ==
    {<<>>} \cup UNION {
        {<<k>> \o s : s \in Shapes(n - (IF k = 0 THEN 1 ELSE k))} :
        k \in {k \in 0..n : n >= 1}}

ShapeSize(k) == IF k = 0 THEN 1 ELSE k

RECURSIVE ShapeTotal(_)
ShapeTotal(sh) ==
    IF sh = <<>> THEN 0 ELSE ShapeSize(Head(sh)) + ShapeTotal(Tail(sh))

\* the input of shape sh whose pairs, in order, have the flags fls
RECURSIVE BuildGaps(_, _, _, _)
BuildGaps(sh, fls, k, variant) ==
    IF sh = <<>> THEN <<>>
    ELSE LET n == ShapeSize(Head(sh))
             ps == [j \in 1..n |-> DressPair(fls[k + j], k + j, variant)]
             g == IF Head(sh) = 0 THEN PairGap(ps[1][1], ps[1][2])
                  ELSE ListGap(ps)
         IN  <<g>> \o BuildGaps(Tail(sh), fls, k + n, variant)

GapInputs(n) ==
    UNION {{BuildGaps(sh, fls, 0, variant) :
                fls \in FlagSeqs(ShapeTotal(sh)), variant \in 0..1} :
           sh \in Shapes(n)}


InitDescribe ==
    /\ gaps \in GapInputs(MaxPairs)
    /\ dres = NoResult
    /\ fz = FzIdle
    /\ cb = <<>>
    /\ cbp = CbNone
    /\ mass = MassNone
    /\ ev = <<>>
    /\ app = AppNone
    /\ det = DetIdle

DescribeCall ==
    /\ det.pc = "idle"
    /\ dres.status = "none"
    /\ dres' = describe_gaps(gaps)
    /\ UNCHANGED <<gaps, fz, cb, cbp, mass, ev, det, app>>

NextDescribe == DescribeCall

SpecDescribe == InitDescribe /\ [][NextDescribe]_vars

----------------------------------------------------------------------------
(* Claims about describe_gaps. *)

\* the classification table of a single boundary pair
TableSingle ==
    (<<2, 2>> :> "p") @@ (<<1, 2>> :> "w") @@ (<<0, 2>> :> "wp") @@
    (<<1, 1>> :> "s") @@ (<<1, 0>> :> "sw") @@ (<<0, 0>> :> "swp")

\* the classification table of a pair inside a liquid sub-gap list
TableSub == (<<2, 2>> :> "p") @@ (<<1, 1>> :> "is") @@ (<<0, 2>> :> "iw")

TableOf(g) == IF g.isList THEN TableSub ELSE TableSingle
FlagsOf(pair) == <<pair[1][1], pair[2][1]>>
Tabled(g, j) == FlagsOf(g.items[j]) \in DOMAIN TableOf(g)
AllTabled(gs) == \A i \in 1..Len(gs) : \A j \in 1..Len(gs[i].items) : Tabled(gs[i], j)

\* the same gaps with every frequency and eigenvalue replaced
Blank(b) == Boundary(b[1], 0, QI(0))
FlagsOnly(gs) ==
    [i \in 1..Len(gs) |->
        [isList |-> gs[i].isList,
         items |-> [j \in 1..Len(gs[i].items) |->
                        <<Blank(gs[i].items[j][1]), Blank(gs[i].items[j][2])>>]]]

\* C1: describe_gaps maps every tabled flag pair to the kind of the table
\* (single pairs and liquid sub-gaps each by their own table), returns one
\* kind per input gap in input order (a list of as many kinds for a list),
\* and its outcome depends only on the flags of the input.
C1_DescribeFollowsTable ==
    dres.status # "none" =>
        /\ AllTabled(gaps) => dres.status = "returned"
        /\ dres = describe_gaps(FlagsOnly(gaps))
        /\ dres.status = "returned" =>
            /\ Len(dres.kinds) = Len(gaps)
            /\ \A i \in 1..Len(gaps) :
                /\ dres.kinds[i].isList = gaps[i].isList
                /\ Len(dres.kinds[i].items) = Len(gaps[i].items)
                /\ \A j \in 1..Len(gaps[i].items) :
                    Tabled(gaps[i], j) =>
                        dres.kinds[i].items[j] = TableOf(gaps[i])[FlagsOf(gaps[i].items[j])]

\* a returned call on a list holding (0,2) followed by the single pair (1,0)
C1_Witness ==
    /\ dres.status = "returned"
    /\ Len(gaps) = 2
    /\ gaps[1].isList /\ FlagsOf(gaps[1].items[1]) = <<0, 2>>
    /\ ~gaps[2].isList /\ FlagsOf(gaps[2].items[1]) = <<1, 0>>
    /\ dres.kinds = <<KindList(<<"iw">>), KindEntry("sw")>>

\* C2: every input holding a pair that is not in its table makes
\* describe_gaps fail and return no kinds, for single pairs and for elements
\* of a sub-gap list alike.
C2_UntabledPairRaises ==
    (dres.status # "none" /\ ~AllTabled(gaps)) => dres.status = "raised"

----------------------------------------------------------------------------
(* Specification of find_zero alone, on an unconstrained callback: Init    *)
(* draws the arguments, each step is one pass of the loop, and the         *)
(* callback's eigenvalues are drawn when a frequency is first evaluated.   *)

FepsSet == 1..MaxFeps
ZepsSet == {QI(0), QI(1)}

FzInputs ==
    {FzStart(f0, f1, feps, zeps, mode) :
        f0 \in Floats, f1 \in Floats, feps \in FepsSet, zeps \in ZepsSet,
        mode \in 0..1}

InitFZ ==
    /\ fz \in {z \in FzInputs : z.f0 < z.f1}
    /\ cbp \in {[kind |-> "free", nc |-> n] : n \in 1..2}
    /\ cb = <<>>
    /\ gaps = <<>>
    /\ dres = NoResult
    /\ mass = MassNone
    /\ ev = <<>>
    /\ app = AppNone
    /\ det = DetIdle

NextFZ == FZStep

SpecFZ == InitFZ /\ [][NextFZ]_vars

\* C5: every pass of find_zero's loop evaluates the tracked eigenvalue (the
\* first for mode 0, the last for mode 1) at the midpoint of the bracket and
\* returns flag 0 with the midpoint when the eigenvalue is below zeps in
\* magnitude or the bracket is below machine precision; otherwise flag 2
\* with f0 or flag 1 with f1 when the midpoint is within feps of that end
\* (f0 tested first in mode 0, f1 first in mode 1); otherwise it goes on.
C5_Step(z, z2) ==
    LET f == Midpoint(z.fm, z.fp)
        val == IF z.mode = 0 THEN cb'[f][1] ELSE cb'[f][Len(cb'[f])]
        zero == QLt(QAbs(val), z.zeps)
                    \/ (z.fp - z.fm) * Pow2(MantBits - 1) < z.fm
        near0 == FSub(f, z.f0) < z.feps
        near1 == FSub(z.f1, f) < z.feps
    IN  /\ z2.f = f /\ z2.val = val
        /\ \A k \in DOMAIN cb'[f] : QLe(cb'[f][1], cb'[f][k]) /\ QLe(cb'[f][k], cb'[f][Len(cb'[f])])
        /\ zero => z2.st = "ret" /\ z2.ret = <<0, f, val>>
        /\ (~zero /\ near0 /\ (z.mode = 0 \/ ~near1)) =>
                z2.st = "ret" /\ z2.ret = <<2, z.f0, val>>
        /\ (~zero /\ near1 /\ (z.mode = 1 \/ ~near0)) =>
                z2.st = "ret" /\ z2.ret = <<1, z.f1, val>>
        /\ (~zero /\ ~near0 /\ ~near1) => z2.st = "run"
        /\ z2.st = "ret" => z2.ret[1] \in {0, 1, 2}

C5_FindZeroReturns == [][fz.st = "run" => C5_Step(fz, fz')]_vars

\* a mode 1 call on two eigenvalues returned flag 1 at a midpoint within
\* feps of both ends, the smallest eigenvalue differing from the largest
C5_Witness ==
    /\ fz.st = "ret" /\ fz.mode = 1 /\ fz.ret[1] = 1
    /\ FSub(fz.f, fz.f0) < fz.feps
    /\ cbp.nc = 2
    /\ cb[fz.f][1] # cb[fz.f][2]

----------------------------------------------------------------------------
(* Specification of find_zero on a monotonic callback with one zero        *)
(* strictly inside ]f0, f1[, farther than feps from both ends.  The zero   *)
(* is any multiple of half the smallest spacing, so it may fall between    *)
(* two floats.                                                             *)

Slopes == {-2, -1, 1, 2}

MonoCallbacks(z) ==
    {[kind |-> "linear", nc |-> 1, slope |-> sl, zero2 |-> z2] :
        sl \in Slopes,
        z2 \in {z2 \in (2 * z.f0 + 1)..(2 * z.f1 - 1) :
                    /\ z2 - 2 * z.f0 > 2 * z.feps
                    /\ 2 * z.f1 - z2 > 2 * z.feps}}

InitMono ==
    /\ fz \in {z \in FzInputs : z.f0 < z.f1}
    /\ cbp \in MonoCallbacks(fz)
    /\ cb = <<>>
    /\ gaps = <<>>
    /\ dres = NoResult
    /\ mass = MassNone
    /\ ev = <<>>
    /\ app = AppNone
    /\ det = DetIdle

NextMono == FZStep

SpecMono == InitMono /\ [][NextMono]_vars

\* the returned frequency is within the tolerance of the zero: the
\* eigenvalue there is below zeps in magnitude, or the zero lies in the
\* final bracket, which is below machine precision
NearZero ==
    \/ QLt(QAbs(LinearEigs(fz.ret[2])[1]), fz.zeps)
    \/ /\ 2 * fz.fm <= cbp.zero2 /\ cbp.zero2 <= 2 * fz.fp
       /\ fz.fm <= fz.ret[2] /\ fz.ret[2] <= fz.fp
       /\ WidthBelowEps(fz.fm, fz.fp)

C6_ValueAtReturnedFreq ==
    fz.st = "ret" => fz.ret[3] = Tracked(LinearEigs(fz.ret[2]), fz.mode)

----------------------------------------------------------------------------
(* Specification of AcousticMassTensor: Init draws the eigenvalues, the    *)
(* eigenmomenta with their validity mask and the density/volume info; the  *)
(* actions are __call__ and evaluate(freq).                                *)

MomentumRows == {<<0, 0>>, <<1, 0>>, <<1, 2>>, <<-1, 1>>}

MassData ==
    {[st |-> "data", eigs |-> e, momenta |-> <<r1, r2>>, valid |-> <<v1, v2>>,
      nc |-> 2, rho |-> rho, vol |-> vol] :
        e \in {<<1, 4>>, <<4, 4>>, <<4, 9>>},
        r1 \in MomentumRows, r2 \in MomentumRows,
        v1 \in BOOLEAN, v2 \in BOOLEAN,
        rho \in {1, 3}, vol \in {1, 2}}

\* frequencies evaluate() is called with; the last is not finite
EvalFreqs == {QI(1), QI(2), QI(3), QInf}

InitMass ==
    /\ mass \in MassData
    /\ ev = <<>>
    /\ app = AppNone
    /\ gaps = <<>>
    /\ dres = NoResult
    /\ fz = FzIdle
    /\ cb = <<>>
    /\ cbp = CbNone
    /\ det = DetIdle

\* AcousticMassTensor.__call__
MassCall ==
    /\ mass.st = "data"
    /\ mass' = MassCallResult(mass)
    /\ ev' = <<[data |-> mass]>>
    /\ UNCHANGED <<gaps, dres, fz, cb, cbp, det, app>>

\* AcousticMassTensor.evaluate(freq); ev[1] keeps the data of __call__,
\* the later entries the calls made
MassEvaluate ==
    /\ mass.st = "ready"
    /\ det.pc = "idle"
    /\ Len(ev) <= MaxEvals
    /\ \E freq \in EvalFreqs :
        /\ ev' = Append(ev, [freq |-> freq, out |-> Evaluate(mass, freq)])
        /\ mass' = AfterEvaluate(mass, freq)
    /\ UNCHANGED <<gaps, dres, fz, cb, cbp, det, app>>

NextMass == MassCall \/ MassEvaluate

SpecMass == InitMass /\ [][NextMass]_vars

EvalCalls == {i \in 2..Len(ev) : TRUE}

\* freq*freq equals the eigenvalue of a mode whose mask is True
AtResonance(data, freq) ==
    \E k \in 1..Len(data.eigs) :
        data.valid[k] /\ QMul(freq, freq) = QI(data.eigs[k])

\* C7: evaluate(freq) raises the 'too close to resonance' error, and
\* returns no tensor, whenever freq*freq equals a valid eigenvalue.
C7_ResonanceRaises ==
    \A i \in EvalCalls :
        AtResonance(ev[1].data, ev[i].freq) => ev[i].out.status = "raised"

\* the tensor of the claim: average_density*I - A/total_volume with
\* A[ir][ic] the sum over the modes k whose mask is True of
\* (freq^2 / (freq^2 - eig_k)) * momentum_k[ir] * momentum_k[ic]
RECURSIVE ClaimSum(_, _, _, _, _)
ClaimSum(data, freq, ir, ic, k) ==
    IF k = 0 THEN QI(0)
    ELSE LET f2 == QMul(freq, freq)
             t == QMul(QDiv(f2, QSub(f2, QI(data.eigs[k]))),
                       QI(data.momenta[k][ir] * data.momenta[k][ic]))
         IN  QAdd(ClaimSum(data, freq, ir, ic, k - 1),
                  IF data.valid[k] THEN t ELSE QI(0))

ClaimTensor(data, freq) ==
    [ir \in 1..data.nc |-> [ic \in 1..data.nc |->
        QSub(IF ir = ic THEN QI(data.rho) ELSE QI(0),
             QDiv(ClaimSum(data, freq, ir, ic, Len(data.eigs)), QI(data.vol)))]]

\* C8: at every finite frequency that is not a resonance evaluate returns
\* the symmetric matrix average_density*I - A/total_volume, A summed over
\* exactly the valid modes, each eigenvalue with its own momentum row.
C8_TensorFormula ==
    \A i \in EvalCalls :
        (QIsFinite(ev[i].freq) /\ ~AtResonance(ev[1].data, ev[i].freq)) =>
            /\ ev[i].out.status = "ok"
            /\ ev[i].out.mtx = ClaimTensor(ev[1].data, ev[i].freq)
            /\ \A ir \in 1..2 : \A ic \in 1..2 :
                    ev[i].out.mtx[ir][ic] = ev[i].out.mtx[ic][ir]

\* an evaluation off resonance with the first mode masked out and the
\* second valid, with a non-zero off-diagonal entry
C8_Witness ==
    /\ Len(ev) >= 2
    /\ ev[1].data.valid = <<FALSE, TRUE>>
    /\ ev[1].data.momenta[1] # ev[1].data.momenta[2]
    /\ ev[2].freq = QI(3) /\ ev[1].data.eigs = <<1, 4>>
    /\ ev[2].out.status = "ok"
    /\ ev[2].out.mtx[1][2] # QI(0)

----------------------------------------------------------------------------
(* Specification of detect_band_gaps on unconstrained eigenvalue traces.   *)
(* Init draws the interval boundaries (freq_info.freq_range_margins), the  *)
(* options and the number of eigenvalues of the mass tensor.               *)

\* boundaries of one interval, or of two of which one is at most 2 wide
MarginSets ==
    {<<a, b>> : a \in {0, 2}, b \in {6, 8}}
    \cup {m \in {0, 4} \X Floats \X {6, 8} :
            /\ m[1] < m[2] /\ m[2] < m[3]
            /\ (m[2] - m[1] <= 2 \/ m[3] - m[2] <= 2)}

\* the runs drawn.  Zeros of two eigenvalues are searched on one interval or
\* on two intervals spanning at most 4; liquid runs, which search no zero,
\* take zeps = 0 and the coarse frequency step on two intervals.
DetInputs ==
    {d \in [fmv : MarginSets, gk : {"normal", "liquid"}, feps : FepsSet,
            zeps : ZepsSet, sd : {1, 4}, nc : 1..2] :
        /\ (d.nc = 2 /\ d.gk = "normal") =>
            \/ Len(d.fmv) = 2 /\ d.sd = 1
            \/ Len(d.fmv) = 3 /\ d.fmv[3] - d.fmv[1] <= 4
        /\ d.gk = "liquid" =>
            /\ d.zeps = QI(0)
            /\ Len(d.fmv) = 3 => d.sd = 1}

InitDetect ==
    /\ \E d \in DetInputs :
        /\ det = DetStart(d.fmv, d.gk, d.feps, d.zeps, d.sd)
        /\ cbp = [kind |-> "free", nc |-> d.nc]
    /\ cb = <<>>
    /\ fz = FzIdle
    /\ gaps = <<>>
    /\ dres = NoResult
    /\ mass = MassNone
    /\ ev = <<>>
    /\ app = AppNone

NextDetect ==
    \/ DetInterval
    \/ DetTrace
    \/ DetLiquid
    \/ DetNormal
    \/ FZStep
    \/ DetAfterMax
    \/ DetAfterMin
    \/ DetDescribe

SpecDetect == InitDetect /\ [][NextDetect]_vars

\* C3: every boundary pair detect_band_gaps appends to gaps has a flag
\* combination of the classification table, and the closing describe_gaps
\* call does not raise.
C3_TableTotal ==
    /\ AllTabled(gaps)
    /\ dres.status # "raised"

----------------------------------------------------------------------------
(* Specification of detect_band_gaps on the mass tensor of a system with   *)
(* one component and one valid mode.  Frequencies are written in halves:   *)
(* the eigenvalue 4 (resonance at frequency 2) is 16 and the range [0, 5]  *)
(* is [0, 10], split by the resonance into ]0, 4[ and ]4, 10[.             *)

E2EMargins == <<0, 4, 10>>
E2EEigs == <<16>>

\* the resonance, in the units of E2EMargins
E2EResonance == E2EMargins[2]

E2EData ==
    {[st |-> "data", eigs |-> E2EEigs, momenta |-> <<<<m>>>>, valid |-> <<TRUE>>,
      nc |-> 1, rho |-> rho, vol |-> vol] :
        m \in 1..3, rho \in 1..3, vol \in 1..2}

InitE2E ==
    /\ \E d \in E2EData : mass = MassCallResult(d)
    /\ \E feps \in FepsSet, zeps \in ZepsSet, sd \in {1, 4} :
           det = DetStart(E2EMargins, "normal", feps, zeps, sd)
    /\ cbp = [kind |-> "mass", nc |-> 1]
    /\ cb = <<>>
    /\ fz = FzIdle
    /\ gaps = <<>>
    /\ dres = NoResult
    /\ ev = <<>>
    /\ app = AppNone

NextE2E ==
    \/ DetInterval
    \/ DetTrace
    \/ DetNormal
    \/ FZStep
    \/ DetAfterMax
    \/ DetAfterMin
    \/ DetDescribe

SpecE2E == InitE2E /\ [][NextE2E]_vars

\* C10 as stated: the mass eigenvalue is negative below the resonance and
\* positive above it, and the two intervals are classified 'w' then 'p'.
C10_Original ==
    /\ \A f \in DOMAIN cb :
        /\ f < E2EResonance => QLt(cb[f][1], QI(0))
        /\ f > E2EResonance => QLt(QI(0), cb[f][1])
    /\ det.pc = "done" => dres.kinds = <<KindEntry("w"), KindEntry("p")>>

\* C10 amended: the mass eigenvalue is positive below the resonance and
\* increases above it; the run does not raise, the lower interval is
\* classified 'p' and the upper one 'swp', 's' or 'p'.
C10_LowerPropagates ==
    /\ \A f \in DOMAIN cb : f < E2EResonance => QLt(QI(0), cb[f][1])
    /\ \A f, g \in DOMAIN cb :
        (E2EResonance < f /\ f < g) => QLt(cb[f][1], cb[g][1])
    /\ det.pc # "raised"
    /\ det.pc = "done" =>
        dres.kinds \in {<<KindEntry("p"), KindEntry(k)>> : k \in {"p", "s", "swp"}}

\* a finished run that located the sign change strictly inside the upper
\* interval, after sampling the lower one
C10_Witness ==
    /\ det.pc = "done"
    /\ dres.kinds = <<KindEntry("p"), KindEntry("swp")>>
    /\ \E f \in DOMAIN cb : f < E2EResonance
    /\ LET gmin == gaps[2].items[1][1]
       IN  gmin[1] = 0 /\ E2EResonance < gmin[2] /\ gmin[2] < E2EMargins[3]

----------------------------------------------------------------------------
(* Eigenmomenta.__call__ and compute_eigenmomenta.  An eigenvector has two *)
(* degrees of freedom: one node with two components, or two nodes with one *)
(* component.  app is the frame of the call:                               *)
(*   via       "call" for Eigenmomenta.__call__, "direct" for a direct     *)
(*             call of compute_eigenmomenta                                *)
(*   input     the eigenvector matrix given, by columns                    *)
(*   eig_vectors  the same matrix as the call goes on                      *)
(*   var       the state of the target variable ("unset" before the first  *)
(*             assignment)                                                 *)
(*   momenta   the rows of `eigenmomenta` ("empty" as nm.empty left them)  *)
(*   assigns, evals  the assignments to the variable and the evaluations   *)
(*             of the functional made so far                               *)

\* what transform(vec, shape) returns, for the transforms drawn: "scale"
\* doubles the vector and flags the zero vector, "drop" returns the vector
\* and flags the vectors whose first entry is 0
Transform(kind, vec) ==
    IF kind = "scale"
    THEN [vec |-> [k \in 1..Len(vec) |-> 2 * vec[k]],
          zero |-> \A k \in 1..Len(vec) : vec[k] = 0]
    ELSE [vec |-> vec, zero |-> vec[1] = 0]

\* eval_equations(equations, variables): the integral of the variable, per
\* component
Functional(state, n_c) ==
    IF n_c = 2 THEN <<state[1], state[2]>> ELSE <<state[1] + state[2]>>

Zeros(n_c) == [k \in 1..n_c |-> 0]

\* lines 41-45: the vector of pass ii and its zero flag; through
\* Eigenmomenta.__call__ the transform is wrap_transform
PhiOf(a, ii) ==
    IF a.transform = "none" THEN [vec |-> a.eig_vectors[ii], zero |-> FALSE]
    ELSE Transform(a.transform, a.eig_vectors[ii])

\* one pass of the loop over the eigenvectors (ii counts from 1 here)
EmBodyMutant(a) ==
    LET ii == a.ii
        phi == PhiOf(a, ii)
    IN  [a EXCEPT !.ii = ii + 1,
                  !.var = phi.vec,
                  !.assigns = Append(@, ii),
                  !.evals = Append(@, [ii |-> ii, state |-> phi.vec]),
                  !.momenta[ii] = IF phi.zero THEN Zeros(a.n_c)
                                  ELSE Functional(phi.vec, a.n_c)]

EmBody(a) ==
    LET ii == a.ii
        phi == PhiOf(a, ii)
    IN  IF phi.zero
        THEN [a EXCEPT !.ii = ii + 1, !.momenta[ii] = Zeros(a.n_c)]
        ELSE [a EXCEPT !.ii = ii + 1,
                       !.var = phi.vec,
                       !.assigns = Append(@, ii),
                       !.evals = Append(@, [ii |-> ii, state |-> phi.vec]),
                       !.momenta[ii] = Functional(phi.vec, a.n_c)]

\* the pass raises instead: the progress message divides by n_eigs - 1 when
\* there is no progress bar, and wrap_transform reads the option
\* eig_vector_transform, which process_options does not set
EmRaises(a) ==
    IF ~a.pb /\ (a.ii - 1) % 100 = 0 /\ Len(a.eig_vectors) = 1
    THEN "ZeroDivisionError"
    ELSE IF a.via = "call" /\ a.transform # "none" THEN "AttributeError"
    ELSE "no"

\* the frame after the loop: compute_eigenmomenta returns
EmAfterLoop(a) ==
    IF a.ii <= Len(a.eig_vectors) THEN a
    ELSE [a EXCEPT !.st = IF a.via = "call" THEN "threshold" ELSE "done"]

EmStep ==
    /\ app.st = "loop"
    /\ app' = IF EmRaises(app) # "no"
              THEN [app EXCEPT !.st = "raised", !.err = EmRaises(app)]
              ELSE EmAfterLoop(EmBody(app))
    /\ UNCHANGED <<gaps, dres, fz, cb, cbp, mass, ev, det>>

\* norm_l2_along_axis, squared: the squared L2 norm of a row
RECURSIVE NormSq(_)
NormSq(row) ==
    IF row = <<>> THEN 0 ELSE row[1] * row[1] + NormSq(Tail(row))

MaxOf(S) == CHOOSE x \in S : \A y \in S : y <= x

\* mag < tol for a threshold thr = <<p, q>> = p / q >= 0, with
\* tol = thr * mag.max() when the threshold is relative; both sides squared
BelowTolMutant(magsq, maxsq, thr, rel) ==
    IF rel THEN magsq * thr[2] * thr[2] <= thr[1] * thr[1] * maxsq
    ELSE magsq * thr[2] * thr[2] <= thr[1] * thr[1]

BelowTol(magsq, maxsq, thr, rel) ==
    IF rel THEN magsq * thr[2] * thr[2] < thr[1] * thr[1] * maxsq
    ELSE magsq * thr[2] * thr[2] < thr[1] * thr[1]

\* lines 619-638: valid, the zeroed eigenmomenta and n_zeroed
Thresholded(momenta, thr, rel) ==
    LET n == Len(momenta)
        maxsq == MaxOf({NormSq(momenta[i]) : i \in 1..n})
        valid == [i \in 1..n |-> ~BelowTol(NormSq(momenta[i]), maxsq, thr, rel)]
        mask == {i \in 1..n : valid[i] = FALSE}
    IN  [valid |-> valid,
         eigenmomenta |-> [i \in 1..n |->
                             IF i \in mask
                             THEN [k \in 1..Len(momenta[i]) |-> 0]
                             ELSE momenta[i]],
         n_zeroed |-> Cardinality(mask)]

\* the rest of Eigenmomenta.__call__ after compute_eigenmomenta returned
EmThreshold ==
    /\ app.st = "threshold"
    /\ app' = [app EXCEPT !.st = "done",
                          !.out = Thresholded(app.momenta, app.thr, app.rel)]
    /\ UNCHANGED <<gaps, dres, fz, cb, cbp, mass, ev, det>>

EmVecs == {<<0, 0>>, <<1, 0>>, <<0, 2>>, <<3, 4>>, <<500, 0>>}

RECURSIVE EmMatrices(_)
EmMatrices(n) ==
    IF n = 0 THEN {}
    ELSE {<<v>> : v \in EmVecs}
         \cup {Append(m, v) : m \in EmMatrices(n - 1), v \in EmVecs}

EmThresholds == {<<0, 1>>, <<1, 10>>, <<2, 1>>}

EmStart(m, via, transform, pb, n_c, thr, rel) ==
    [st |-> "loop", err |-> "", via |-> via, transform |-> transform,
     pb |-> pb, n_c |-> n_c, thr |-> thr, rel |-> rel,
     input |-> m, eig_vectors |-> m, ii |-> 1, var |-> "unset",
     momenta |-> [i \in 1..Len(m) |-> "empty"],
     assigns |-> <<>>, evals |-> <<>>, out |-> <<>>]

InitMomenta ==
    /\ \E m \in EmMatrices(MaxEigs), pb \in BOOLEAN, n_c \in 1..2 :
        \/ \E transform \in {"none", "scale", "drop"} :
            app = EmStart(m, "direct", transform, pb, n_c, <<0, 1>>, FALSE)
        \/ \E transform \in {"none", "scale"}, thr \in EmThresholds,
              rel \in BOOLEAN :
            app = EmStart(m, "call", transform, pb, n_c, thr, rel)
    /\ gaps = <<>>
    /\ dres = NoResult
    /\ fz = FzIdle
    /\ cb = <<>>
    /\ cbp = CbNone
    /\ mass = MassNone
    /\ ev = <<>>
    /\ det = DetIdle

NextMomenta ==
    \/ EmStep
    \/ EmThreshold

SpecMomenta == InitMomenta /\ [][NextMomenta]_vars

\* the calls of Eigenmomenta.__call__ that returned a record
EmReturned == app.st = "done" /\ app.via = "call"

\* row i of the computed eigenmomenta has its L2 norm below tol, where
\* tol = threshold * (maximum row norm) or tol = threshold
NormBelowTol(a, i) ==
    LET p == a.thr[1]
        q == a.thr[2]
    IN  IF a.rel
        THEN \E j \in 1..Len(a.momenta) :
                /\ \A k \in 1..Len(a.momenta) :
                        NormSq(a.momenta[k]) <= NormSq(a.momenta[j])
                /\ q * q * NormSq(a.momenta[i]) < p * p * NormSq(a.momenta[j])
        ELSE q * q * NormSq(a.momenta[i]) < p * p

\* C11: in the record Eigenmomenta returns, valid[i] is False exactly when
\* the L2 norm of row i is below tol (threshold times the maximum row norm
\* when the threshold is relative, else the threshold); every invalid row is
\* all zeros, every valid row is unchanged, and n_zeroed is the number of
\* False entries of valid.
C11_Thresholding ==
    EmReturned =>
        /\ Len(app.out.valid) = Len(app.momenta)
        /\ Len(app.out.eigenmomenta) = Len(app.momenta)
        /\ \A i \in 1..Len(app.momenta) :
            /\ app.out.valid[i] = ~NormBelowTol(app, i)
            /\ ~app.out.valid[i] =>
                \A k \in 1..app.n_c : app.out.eigenmomenta[i][k] = 0
            /\ app.out.valid[i] => app.out.eigenmomenta[i] = app.momenta[i]
        /\ app.out.n_zeroed =
            Cardinality({i \in 1..Len(app.momenta) : ~app.out.valid[i]})

\* rows of norms 1, 500, 2 under the relative threshold 1/10: the first and
\* the last row are zeroed
C11_Witness ==
    /\ EmReturned
    /\ app.rel /\ app.thr = <<1, 10>>
    /\ app.momenta = <<<<1, 0>>, <<500, 0>>, <<0, 2>>>>
    /\ app.out.valid = <<FALSE, TRUE, FALSE>>
    /\ app.out.n_zeroed = 2
    /\ app.out.eigenmomenta = <<<<0, 0>>, <<500, 0>>, <<0, 0>>>>

\* the vector and the flag the transform gives for eigenvector ii of the
\* matrix handed to compute_eigenmomenta
ClaimPhi(a, ii) ==
    IF a.transform = "none" THEN [vec |-> a.input[ii], zero |-> FALSE]
    ELSE Transform(a.transform, a.input[ii])

\* C12: for every eigenvector already passed, if the transform flags it as
\* zero its row is exactly zero and there is neither an assignment of the
\* variable nor an evaluation for it; otherwise there is exactly one
\* assignment and one evaluation for it, the evaluation is made on the
\* variable holding its (transformed) vector, and its row is the value of
\* that evaluation.  The eigenvector matrix is as it was given.
C12_ZeroFlaggedNotEvaluated ==
    app.st \in {"loop", "threshold", "done"} =>
        /\ app.eig_vectors = app.input
        /\ Len(app.assigns) = Len(app.evals)
        /\ \A k \in 1..Len(app.evals) : app.assigns[k] = app.evals[k].ii
        /\ \A ii \in 1..(app.ii - 1) :
            LET phi == ClaimPhi(app, ii)
                mine == {k \in 1..Len(app.evals) : app.evals[k].ii = ii}
            IN  /\ phi.zero =>
                    /\ app.momenta[ii] = [k \in 1..app.n_c |-> 0]
                    /\ mine = {}
                /\ ~phi.zero =>
                    /\ Cardinality(mine) = 1
                    /\ \A k \in mine :
                        /\ app.evals[k].state = phi.vec
                        /\ app.momenta[ii] = Functional(phi.vec, app.n_c)

\* a direct call that returned after skipping a flagged eigenvector that is
\* not the zero vector and evaluating another one after it
C12_Witness ==
    /\ app.st = "done" /\ app.via = "direct" /\ app.transform = "drop"
    /\ Len(app.input) >= 2
    /\ app.input[1] = <<0, 2>> /\ app.momenta[1] = [k \in 1..app.n_c |-> 0]
    /\ app.input[2] = <<3, 4>> /\ app.assigns = <<2>>

----------------------------------------------------------------------------
(* DensityVolumeInfo.__call__.  Region volumes, densities and the volume   *)
(* supplied from outside are whole numbers, the supplied volume positive;  *)
(* the average density is an exact rational.                               *)

\* total_volume += vol
RECURSIVE SumVol(_)
SumVol(regions) ==
    IF regions = <<>> THEN 0 ELSE Head(regions).vol + SumVol(Tail(regions))

\* average_density += vol * density
RECURSIVE SumMass(_)
SumMass(regions) ==
    IF regions = <<>> THEN 0
    ELSE Head(regions).vol * Head(regions).density + SumMass(Tail(regions))

\* assert_(abs(total_volume - true_volume) / true_volume < 1e-14)
VolumesAgreeMutant(total_volume, true_volume) ==
    Abs(total_volume - true_volume) * VolTolDen <= true_volume

VolumesAgree(total_volume, true_volume) ==
    Abs(total_volume - true_volume) * VolTolDen < true_volume

\* the record returned, or the failed assertion
DvResult(regions, true_volume) ==
    LET total_volume == SumVol(regions)
        average_density == SumMass(regions)
    IN  IF ~VolumesAgree(total_volume, true_volume)
        THEN [status |-> "raised"]
        ELSE [status |-> "returned",
              average_density |-> Q(average_density, true_volume),
              total_volume |-> total_volume,
              volumes |-> [i \in 1..Len(regions) |-> regions[i].vol],
              densities |-> [i \in 1..Len(regions) |-> regions[i].density]]

DvCall ==
    /\ app.st = "dv"
    /\ app' = [app EXCEPT !.st = "dvdone",
                          !.out = DvResult(app.regions, app.true_volume)]
    /\ UNCHANGED <<gaps, dres, fz, cb, cbp, mass, ev, det>>

DvRegion == [vol : 1..3, density : {0, 10, 20}]

RECURSIVE DvRegions(_)
DvRegions(n) ==
    IF n = 0 THEN {}
    ELSE {<<r>> : r \in DvRegion}
         \cup {Append(rs, r) : rs \in DvRegions(n - 1), r \in DvRegion}

InitDensity ==
    /\ \E rs \in DvRegions(MaxRegions), tv \in 1..(3 * MaxRegions + 2) :
        app = [st |-> "dv", regions |-> rs, true_volume |-> tv, out |-> <<>>]
    /\ gaps = <<>>
    /\ dres = NoResult
    /\ fz = FzIdle
    /\ cb = <<>>
    /\ cbp = CbNone
    /\ mass = MassNone
    /\ ev = <<>>
    /\ det = DetIdle

NextDensity == DvCall

SpecDensity == InitDensity /\ [][NextDensity]_vars

DvReturned == app.st = "dvdone" /\ app.out.status = "returned"

\* C13: every record returned has total_volume equal to the sum of the
\* region volumes and average_density * total_volume equal to the sum over
\* the regions of volume * density, with one volume and one density per
\* region.
C13_DensityInvariant ==
    DvReturned =>
        /\ app.out.total_volume = SumVol(app.regions)
        /\ QMul(app.out.average_density, QI(app.out.total_volume))
            = QI(SumMass(app.regions))
        /\ Len(app.out.volumes) = Len(app.regions)
        /\ Len(app.out.densities) = Len(app.regions)

\* the relative deviation of the summed volumes from the supplied volume
\* is more than the tolerance
DeviatesMore(a) ==
    Abs(SumVol(a.regions) - a.true_volume) * VolTolDen > a.true_volume

\* C14 as stated: the call fails exactly when the summed region volumes
\* deviate from the supplied volume by more than the tolerance, and returns
\* a record otherwise.
C14_Original ==
    app.st = "dvdone" => (app.out.status = "raised" <=> DeviatesMore(app))

\* C14 amended: the call fails exactly when the deviation is greater than
\* or equal to the tolerance.
C14_ConsistencyCheck ==
    app.st = "dvdone" =>
        (app.out.status = "raised" <=>
            Abs(SumVol(app.regions) - app.true_volume) * VolTolDen
                >= app.true_volume)

\* a call that returned with summed volumes different from the supplied
\* volume
C14_Witness ==
    /\ DvReturned
    /\ app.out.total_volume # app.true_volume

----------------------------------------------------------------------------
(* The set-up of BandGaps.__call__: fix_eig_range, then cut_freq_range     *)
(* with no fixed_eig_range.  The eigenvalues are the squares of the        *)
(* frequencies app.rfreqs (ascending), so nm.sqrt(eigs[k]) = rfreqs[k + 1]; *)
(* eig_range is [kind, start, end] with kind "none", "list" or "tuple".    *)
(* freq_margins are given in halves.                                       *)

\* fix_eig_range(n_eigs): the range stored, or the error raised.  Adding to
\* the last entry of a tuple raises TypeError.
FixEigRange(er, n_eigs) ==
    LET start == IF er.kind = "none" THEN 0 ELSE er.start
        end0 == IF er.kind = "none" THEN n_eigs ELSE er.end
        end == IF end0 < 0 THEN end0 + n_eigs + 1 ELSE end0
    IN  IF end0 < 0 /\ er.kind = "tuple"
        THEN [status |-> "raised", err |-> "TypeError", range |-> <<>>]
        ELSE IF ~(start < end - 1) \/ ~(end <= n_eigs)
        THEN [status |-> "raised", err |-> "assertion", range |-> <<>>]
        ELSE [status |-> "ok", err |-> "", range |-> <<start, end>>]

\* the positions (from 1) that slice(start, end) selects in an array of n
PySlice(n, start, end) ==
    LET clip(i) == IF i < 0 THEN Max(i + n, 0) ELSE Min(i, n)
    IN  (clip(start) + 1)..clip(end)

\* a[S] for a set S of positions, in ascending order
Pick(a, S) == [k \in 1..Cardinality(S) |-> a[Ascending(S)[k]]]

\* self.fix_eig_range(eigs.shape[0])
SetupFix ==
    /\ app.st = "setup"
    /\ LET r == FixEigRange(app.eig_range, Len(app.rfreqs))
       IN  app' = [app EXCEPT !.st = IF r.status = "ok" THEN "fixed" ELSE "raised",
                              !.err = r.err,
                              !.range = r.range]
    /\ UNCHANGED <<gaps, dres, fz, cb, cbp, mass, ev, det>>

\* a - b where the difference only enters max(feps, ...): any value below
\* feps, negative ones included, gives the same result, and 0 stands for it
FSub0(a, b) == IF b >= a THEN 0 ELSE FSub(a, b)

\* cut_freq_range(freq_range, eigs, valid, freq_margins, eig_range, None,
\* feps) after freq_range_initial = nm.sqrt(eigs[slice(*eig_range)]); an
\* empty slice raises IndexError at freq_range[0]
CutFreqRange(rfreqs, valid, freq_margins, range, feps) ==
    LET n_eigs == Len(rfreqs)
        sl == PySlice(n_eigs, range[1], range[2])
        initial == Pick(rfreqs, sl)
        min_freq == initial[1]
        max_freq == initial[Len(initial)]
        width == FSub(max_freq, min_freq)
        margins == <<RNQ(freq_margins[1] * width, 2),
                     RNQ(freq_margins[2] * width, 2)>>
        prev0 == FSub0(min_freq, margins[1])
        next0 == FAdd(max_freq, margins[2])
        prev1 == IF range[1] > 0
                 THEN Max(FAdd(rfreqs[range[1]], feps), prev0) ELSE prev0
        next1 == IF range[2] < n_eigs
                 THEN Min(FSub0(rfreqs[range[2] + 1], feps), next0) ELSE next0
        prev_eig == Max(feps, prev1)
        next_eig == Max(Max(feps, next1), FAdd(prev_eig, feps))
        freq_range == Pick(rfreqs, {k \in sl : valid[k]})
    IN  IF sl = {}
        THEN [status |-> "raised", err |-> "IndexError"]
        ELSE [status |-> "ok", freq_range |-> freq_range,
              freq_range_margins |-> <<prev_eig>> \o freq_range \o <<next_eig>>]

\* freq_range_initial and the call of cut_freq_range
SetupCut ==
    /\ app.st = "fixed"
    /\ LET r == CutFreqRange(app.rfreqs, app.valid, app.freq_margins,
                             app.range, app.feps)
       IN  app' = IF r.status = "ok"
                  THEN [app EXCEPT !.st = "cut", !.freq_range = r.freq_range,
                                   !.fmv = r.freq_range_margins]
                  ELSE [app EXCEPT !.st = "raised", !.err = r.err]
    /\ UNCHANGED <<gaps, dres, fz, cb, cbp, mass, ev, det>>

\* ascending sequences of n resonance frequencies
RECURSIVE ResSeqs(_)
ResSeqs(n) ==
    IF n = 0 THEN {<<>>}
    ELSE {Append(r, f) : r \in ResSeqs(n - 1), f \in 0..MaxRes}

AscResSeqs(n) ==
    {r \in ResSeqs(n) : \A k \in 1..(n - 1) : r[k] <= r[k + 1]}

EigRanges(n) ==
    {[kind |-> "none", start |-> 0, end |-> 0]}
    \cup {[kind |-> "list", start |-> a, end |-> b] :
            a \in (-1)..(n - 1), b \in (-2)..(n + 1)}
    \cup {[kind |-> "tuple", start |-> 0, end |-> b] : b \in {-1, n}}

InitSetup ==
    /\ \E n \in 1..MaxEigs :
        \E r \in AscResSeqs(n), v \in [1..n -> BOOLEAN], er \in EigRanges(n),
           m \in {<<0, 0>>, <<1, 1>>}, feps \in FepsSet :
            app = [st |-> "setup", err |-> "", rfreqs |-> r, valid |-> v,
                   eig_range |-> er, freq_margins |-> m, feps |-> feps,
                   range |-> <<>>, freq_range |-> <<>>, fmv |-> <<>>]
    /\ gaps = <<>>
    /\ dres = NoResult
    /\ fz = FzIdle
    /\ cb = <<>>
    /\ cbp = CbNone
    /\ mass = MassNone
    /\ ev = <<>>
    /\ det = DetIdle

NextSetup ==
    \/ SetupFix
    \/ SetupCut

SpecSetup == InitSetup /\ [][NextSetup]_vars

\* the range asked for, a negative end counting from the end
ClaimRange(a) ==
    LET n == Len(a.rfreqs)
    IN  IF a.eig_range.kind = "none" THEN <<0, n>>
        ELSE <<a.eig_range.start,
               IF a.eig_range.end < 0 THEN a.eig_range.end + n + 1
               ELSE a.eig_range.end>>

\* the range is empty or out of the bounds 0..n_eigs
ClaimInvalid(a) ==
    LET r == ClaimRange(a)
    IN  r[1] >= r[2] \/ r[1] < 0 \/ r[2] < 0 \/ r[2] > Len(a.rfreqs)

FixFailed == app.st = "raised" /\ app.err # "IndexError"

\* C15: fix_eig_range fails exactly when the range asked for is empty or
\* out of bounds; every other range, also one of a single eigenvalue, is
\* accepted and stored.
C15_RangeCheck ==
    app.st # "setup" =>
        /\ FixFailed <=> ClaimInvalid(app)
        /\ ~FixFailed => app.range = ClaimRange(app)

\* C16: for an eigenvalue range within bounds, the margins cut_freq_range
\* returns are strictly ascending, so every interval (f0, f1)
\* detect_band_gaps iterates over has f0 < f1.
C16_OrderedPartition ==
    (app.st = "cut" /\ app.range[1] >= 0) =>
        \A k \in 1..(Len(app.fmv) - 1) : app.fmv[k] < app.fmv[k + 1]

----------------------------------------------------------------------------
(* Claims about the interval loop of detect_band_gaps.                     *)

\* find_zero as a function of its arguments and of what the callback
\* returns (cb); <<>> when a frequency it needs was never evaluated
RECURSIVE FindZeroFn(_)
FindZeroFn(z) ==
    IF z.st = "ret" THEN z.ret
    ELSE LET f == Midpoint(z.fm, z.fp)
         IN  IF f \notin DOMAIN cb THEN <<>>
             ELSE FindZeroFn(FzAfter(z, f, cb[f]))

\* what the loop body gives for the interval ]f0, f1[ alone: a function of
\* the endpoints, the options, the global range fmv and the callback
IntervalFn(f0, f1, fmv, gap_kind, feps, zeps, stepDen) ==
    LET lf == LogFreqs(f0, f1, fmv, feps, stepDen)
        n == Len(lf)
        mevp == [k \in 1..n |-> cb[lf[k]]]
        nc == Len(mevp[1])
        rmax == FindZeroFn(FzStart(lf[1], lf[n], feps, zeps, 1))
        imax == SearchSorted(lf, rmax[2])
        lmax == Insert(lf, imax, rmax[2])
        mmax == Insert(mevp, imax, cb[rmax[2]])
        rmin == FindZeroFn(FzStart(lf[1], lf[n], feps, zeps, 0))
        imin == SearchSorted(lf, rmin[2])
        ok(gap, freqs, eigs) ==
            [status |-> "ok", gap |-> gap, freqs |-> freqs, eigs |-> eigs]
    IN  IF gap_kind = "liquid"
        THEN IF nc = 1 THEN [status |-> "IndexError"]
             ELSE ok(LiquidGap(lf, mevp), lf, mevp)
        ELSE IF QLt(QI(0), mevp[1][1])
        THEN ok(PairGap(Boundary(2, lf[1], mevp[1][1]),
                        Boundary(2, lf[1], mevp[1][nc])), lf, mevp)
        ELSE IF QLt(mevp[n][nc], QI(0))
        THEN ok(PairGap(Boundary(1, lf[n], mevp[n][1]),
                        Boundary(1, lf[n], mevp[n][nc])), lf, mevp)
        ELSE IF rmax[1] = 1
        THEN ok(PairGap(Boundary(1, rmax[2], rmax[3]), rmax), lmax, mmax)
        ELSE ok(PairGap(rmin, rmax),
                Insert(lmax, imin + 1, rmin[2]),
                Insert(mmax, imin + 1, cb[rmin[2]]))

IntervalOf(i) ==
    IntervalFn(det.fmv[i], det.fmv[i + 1], det.fmv, det.gap_kind, det.feps,
               det.zeps, det.stepDen)

SamplesOf(i) ==
    LogFreqs(det.fmv[i], det.fmv[i + 1], det.fmv, det.feps, det.stepDen)

\* the step appends the pair (flag, flag) located at frequency f, calls no
\* find_zero and logs the samples and their eigenvalues as traced
EmitsUnsearched(flag, f) ==
    /\ Len(gaps') = Len(gaps) + 1
    /\ ~gaps'[Len(gaps')].isList
    /\ LET gap == gaps'[Len(gaps')].items[1]
       IN  /\ gap[1][1] = flag /\ gap[2][1] = flag
           /\ gap[1][2] = f /\ gap[2][2] = f
    /\ fz' = fz /\ fz.st # "run"
    /\ cb' = cb
    /\ det'.logs_freqs = Append(det.logs_freqs, det.log_freqs)
    /\ det'.logs_eigs = Append(det.logs_eigs, det.log_mevp)
    /\ det.log_freqs = SamplesOf(det.ii)

\* C18: in normal mode, once an interval is traced: if the smallest
\* eigenvalue at the first sample is > 0 the step appends (2, 2) at the
\* first sample frequency; else if the largest eigenvalue at the last
\* sample is < 0 it appends (1, 1) at the last sample frequency; in both
\* cases without a find_zero call and with the logs as sampled; otherwise,
\* a zero at either end included, no gap is appended yet and find_zero is
\* entered.
C18_EndCases ==
    [][(det.pc = "classify" /\ det.gap_kind = "normal") =>
        LET n == Len(det.log_freqs)
            first == det.log_mevp[1]
            last == det.log_mevp[n]
        IN  IF QLt(QI(0), first[1])
            THEN EmitsUnsearched(2, det.log_freqs[1])
            ELSE IF QLt(last[Len(last)], QI(0))
            THEN EmitsUnsearched(1, det.log_freqs[n])
            ELSE /\ gaps' = gaps
                 /\ fz'.st = "run"
                 /\ det'.logs_freqs = det.logs_freqs]_vars

\* a finished run of two intervals: the first ended as (2, 2) without a
\* search, the second was searched because its first sample has a smallest
\* eigenvalue of exactly zero
C18_Witness ==
    /\ det.pc = "done"
    /\ det.gap_kind = "normal"
    /\ Len(gaps) = 2
    /\ gaps[1].items[1][1][1] = 2 /\ gaps[1].items[1][2][1] = 2
    /\ det.logs_freqs[1] = SamplesOf(1)
    /\ cb[SamplesOf(2)[1]][1] = QI(0)
    /\ Len(det.logs_freqs[2]) > Len(SamplesOf(2))

\* the bracket of both searches of interval ii: its first and last sample
StartsSearch(z, mode) ==
    /\ z.st = "run"
    /\ z.mode = mode
    /\ z.f0 = SamplesOf(det.ii)[1]
    /\ z.f1 = SamplesOf(det.ii)[Len(SamplesOf(det.ii))]
    /\ z.fm = z.f0 /\ z.fp = z.f1

\* C19: a step that enters the crossing branch starts find_zero in mode 1
\* on the bracket of the first and last sample; when that search has
\* returned, the step after it starts find_zero in mode 0 on the same
\* bracket if and only if the flag returned is 0 or 2, and for flag 1 it
\* starts no search and appends the gap with gmin = (1, fmax, vmax); a
\* mode 0 search is started by no other step; and the gap appended after
\* the mode 0 search is (its result, the result of the mode 1 search).
C19_SearchOrder ==
    [][/\ (det.pc = "classify" /\ det'.pc # "classify" /\ fz'.st = "run")
            => StartsSearch(fz', 1)
       /\ (fz'.st = "run" /\ fz'.mode = 0 /\ (fz.st # "run" \/ fz.mode # 0))
            => /\ fz.st = "ret" /\ fz.mode = 1 /\ fz.ret[1] \in {0, 2}
               /\ StartsSearch(fz', 0)
       /\ (det.pc = "fzmax" /\ fz.st = "ret")
            => IF fz.ret[1] \in {0, 2}
               THEN StartsSearch(fz', 0) /\ gaps' = gaps
               ELSE /\ fz.ret[1] = 1
                    /\ fz'.st # "run"
                    /\ gaps' = Append(gaps,
                                PairGap(<<1, fz.ret[2], fz.ret[3]>>, fz.ret))
       /\ (det.pc = "fzmin" /\ fz.st = "ret")
            => /\ fz.mode = 0
               /\ fz'.st # "run"
               /\ gaps' = Append(gaps,
                    PairGap(fz.ret,
                            FindZeroFn(FzStart(fz.f0, fz.f1, fz.feps,
                                               fz.zeps, 1))))]_vars

\* a finished run whose first interval ended with the mode 1 search alone
\* (flag 1, one frequency added to the log) and whose second interval had
\* both searches, the first of them returning flag 2
C19_Witness ==
    /\ det.pc = "done"
    /\ Len(gaps) = 2
    /\ Len(det.logs_freqs[1]) = Len(SamplesOf(1)) + 1
    /\ gaps[1].items[1][1] = <<1, gaps[1].items[1][2][2], gaps[1].items[1][2][3]>>
    /\ Len(det.logs_freqs[2]) = Len(SamplesOf(2)) + 2
    /\ gaps[2].items[1][2][1] = 2

----------------------------------------------------------------------------
(* Specification of BandGaps.__call__ in normal mode: fix_eig_range,       *)
(* cut_freq_range, then detect_band_gaps on the margins cut_freq_range     *)
(* returned, with an unconstrained callback of one eigenvalue.  Init draws *)
(* two resonance frequencies, their validity mask and the options.         *)

\* resonance frequencies drawn: a zero one, a double one, two distinct ones
BgResonances == {<<0, 8>>, <<0, 0>>, <<4, 8>>, <<8, 8>>}

\* feps drawn: below and at the distance of the resonances
BgFeps == {1, 8}

InitBandGaps ==
    /\ \E r \in BgResonances, v \in [1..2 -> BOOLEAN],
          m \in {<<0, 0>>, <<1, 1>>}, feps \in BgFeps, zeps \in ZepsSet :
            app = [st |-> "setup", err |-> "", rfreqs |-> r, valid |-> v,
                   eig_range |-> [kind |-> "none", start |-> 0, end |-> 0],
                   freq_margins |-> m, feps |-> feps, zeps |-> zeps,
                   range |-> <<>>, freq_range |-> <<>>, fmv |-> <<>>]
    /\ cbp = [kind |-> "free", nc |-> 1]
    /\ cb = <<>>
    /\ gaps = <<>>
    /\ dres = NoResult
    /\ fz = FzIdle
    /\ mass = MassNone
    /\ ev = <<>>
    /\ det = DetIdle

\* logs, gaps, kinds = detect_band_gaps(mass, freq_info, opts)
BgDetect ==
    /\ app.st = "cut"
    /\ det.pc = "idle"
    /\ det' = DetStart(app.fmv, "normal", app.feps, app.zeps, 1)
    /\ UNCHANGED <<gaps, dres, fz, cb, cbp, mass, ev, app>>

NextBandGaps ==
    \/ SetupFix
    \/ SetupCut
    \/ BgDetect
    \/ DetInterval
    \/ DetTrace
    \/ DetNormal
    \/ FZStep
    \/ DetAfterMax
    \/ DetAfterMin
    \/ DetDescribe

SpecBandGaps == InitBandGaps /\ [][NextBandGaps]_vars

\* the log of a finished interval is in non-decreasing order
LogSorted(fs) == \A k \in 1..(Len(fs) - 1) : fs[k] <= fs[k + 1]

\* the logs of interval i agree with its gap: sorted, of equal lengths,
\* holding the frequencies of both boundaries, each eigenvalue entry the
\* callback's value at the frequency in the same position
LogConsistent(i) ==
    LET fs == det.logs_freqs[i]
        es == det.logs_eigs[i]
        gap == gaps[i].items[1]
    IN  /\ LogSorted(fs)
        /\ Len(fs) = Len(es)
        /\ \E k \in 1..Len(fs) : fs[k] = gap[2][2]
        /\ \E k \in 1..Len(fs) : fs[k] = gap[1][2]
        /\ \A k \in 1..Len(fs) : fs[k] \in DOMAIN cb /\ es[k] = cb[fs[k]]

\* C20: in normal mode the logs of every processed interval are
\* consistent with its boundaries, whichever of fmin and fmax is smaller.
C20_LogsConsistent ==
    (det.pc \in {"interval", "describe", "done"} /\ det.gap_kind = "normal") =>
        \A i \in 1..Len(det.logs_freqs) : LogConsistent(i)

----------------------------------------------------------------------------
(* Claims about the results of detect_band_gaps as a whole.                *)

\* every member of the sequence a occurs in the sequence b
AllIn(a, b) == \A k \in 1..Len(a) : \E j \in 1..Len(b) : b[j] = a[k]

\* entry i of the results is the one of interval i: its log holds the
\* samples of ]fmv[i], fmv[i+1][ and the frequencies of all its boundaries
EntryOfInterval(i) ==
    /\ AllIn(SamplesOf(i), det.logs_freqs[i])
    /\ \A j \in 1..Len(gaps[i].items) :
        AllIn(<<gaps[i].items[j][1][2], gaps[i].items[j][2][2]>>,
              det.logs_freqs[i])

\* C21: between two passes of the loop gaps, logs.freqs and logs.eigs hold
\* one entry per interval processed so far; on return they and kinds hold
\* one entry for each of the intervals between consecutive margins, entry
\* i being the one of interval i, and the kinds entry of a list of
\* sub-gaps is a list of the same length.
C21_OnePerInterval ==
    /\ det.pc \in {"interval", "describe", "done"} =>
        /\ Len(gaps) = det.ii - 1
        /\ Len(det.logs_freqs) = det.ii - 1
        /\ Len(det.logs_eigs) = det.ii - 1
    /\ det.pc = "done" =>
        /\ Len(gaps) = Len(det.fmv) - 1
        /\ Len(dres.kinds) = Len(gaps)
        /\ \A i \in 1..Len(gaps) :
            /\ EntryOfInterval(i)
            /\ dres.kinds[i].isList = gaps[i].isList
            /\ Len(dres.kinds[i].items) = Len(gaps[i].items)

\* a liquid run over two intervals that returned, the first giving a list
\* of two sub-gaps and the second a single pair
C21_Witness ==
    /\ det.pc = "done"
    /\ det.gap_kind = "liquid"
    /\ Len(gaps) = 2
    /\ gaps[1].isList /\ Len(gaps[1].items) = 2
    /\ ~gaps[2].isList
    /\ Len(dres.kinds[1].items) = 2

----------------------------------------------------------------------------
(* Claims about the liquid branch of detect_band_gaps.                     *)

\* the maximal runs of consecutive members of a set S of indices, as
\* <<first, last>>, in ascending order
RunsOf(S) ==
    LET firsts == {a \in S : (a - 1) \notin S}
        lastOf(a) == CHOOSE b \in S :
                        /\ b >= a
                        /\ \A c \in a..b : c \in S
                        /\ (b + 1) \notin S
        fs == Ascending(firsts)
    IN  [k \in 1..Len(fs) |-> <<fs[k], lastOf(fs[k])>>]

\* the gap the claim gives for an interval traced as mevp at log_freqs
ClaimLiquid(log_freqs, mevp) ==
    LET n == Len(mevp)
        si == {k \in 1..n : QLt(mevp[k][1], QI(0))}
        li == {k \in 1..n : QLt(mevp[k][Len(mevp[k])], QI(0))}
        wi == si \ li
        lr == RunsOf(li)
        wr == RunsOf(wi)
    IN  IF si = {} THEN [isList |-> FALSE, flags |-> <<<<2, 2>>>>,
                          freqs |-> <<>>]
        ELSE IF li = 1..n THEN [isList |-> FALSE, flags |-> <<<<1, 1>>>>,
                                freqs |-> <<>>]
        ELSE [isList |-> TRUE,
              flags |-> [k \in 1..Len(lr) |-> <<1, 1>>]
                        \o [k \in 1..Len(wr) |-> <<0, 2>>],
              freqs |-> [k \in 1..Len(lr) |->
                            <<log_freqs[lr[k][1]], log_freqs[lr[k][2]]>>]
                        \o [k \in 1..Len(wr) |->
                            <<log_freqs[wr[k][1]], log_freqs[wr[k][2]]>>]]

\* the gap g is the one the claim gives
IsClaimLiquid(g, c) ==
    /\ g.isList = c.isList
    /\ Len(g.items) = Len(c.flags)
    /\ \A k \in 1..Len(g.items) : FlagsOf(g.items[k]) = c.flags[k]
    /\ c.isList =>
        /\ Len(g.items) >= 1
        /\ \A k \in 1..Len(g.items) :
            <<g.items[k][1][2], g.items[k][2][2]>> = c.freqs[k]

\* C22: in liquid mode the step that classifies a traced interval appends
\* the single pair (2,2) when si is empty, the single pair (1,1) when li
\* covers all samples, and otherwise a non-empty list of one (1,1) pair
\* per maximal run of li followed by one (0,2) pair per maximal run of
\* wi = si \ li, each with the frequencies of the first and last sample of
\* its run.
C22_LiquidGaps ==
    [][(det.pc = "classify" /\ det.gap_kind = "liquid") =>
        /\ Len(gaps') = Len(gaps) + 1
        /\ IsClaimLiquid(gaps'[Len(gaps')],
                         ClaimLiquid(det.log_freqs, det.log_mevp))]_vars

----------------------------------------------------------------------------
(* Claims about the frequencies at which the callback is evaluated.        *)

\* the frequency the next step passes to the callback, as a set: the next
\* sample of the trace, the next midpoint of find_zero, or the root
\* frequency traced again for the log
NextEvaluated ==
    IF det.pc = "trace" THEN {det.log_freqs[Len(det.log_mevp) + 1]}
    ELSE IF det.pc \in {"fzmax", "fzmin"} /\ fz.st = "run"
    THEN {Midpoint(fz.fm, fz.fp)}
    ELSE IF det.pc \in {"fzmax", "fzmin"} /\ fz.st = "ret" THEN {fz.ret[2]}
    ELSE {}

\* where the claim puts a frequency evaluated for the interval ]f0, f1[
ClaimInside(f, f0, f1, feps) ==
    /\ f0 < f /\ f < f1
    /\ IsWide(f0, f1, feps) => (f0 + feps <= f /\ f <= f1 - feps)

\* a narrow interval is traced at two samples, one on each side of the
\* midpoint
ClaimNarrow(f0, f1, feps, log_freqs) ==
    ~IsWide(f0, f1, feps) =>
        /\ Len(log_freqs) = 2
        /\ 2 * log_freqs[1] <= f0 + f1
        /\ f0 + f1 <= 2 * log_freqs[2]

\* C23: for every interval with f0 < f1 and feps > 0, every frequency the
\* callback is evaluated at (trace sample, bisection midpoint, root
\* frequency traced again) lies strictly inside ]f0, f1[, and inside
\* [f0 + feps, f1 - feps] when the interval is wider than 2*feps; a
\* narrower interval is traced at two samples around its midpoint.
C23_EvaluatedInside ==
    (det.pc \in {"trace", "classify", "fzmax", "fzmin"}
     /\ det.fmv[det.ii] < det.fmv[det.ii + 1] /\ det.feps > 0) =>
        /\ \A f \in NextEvaluated :
            ClaimInside(f, det.fmv[det.ii], det.fmv[det.ii + 1], det.feps)
        /\ det.pc = "trace" =>
            ClaimNarrow(det.fmv[det.ii], det.fmv[det.ii + 1], det.feps,
                        det.log_freqs)

----------------------------------------------------------------------------
(* Termination of find_zero.  The loop `while 1` makes its next pass       *)
(* whenever it has not returned, so FZStep is taken under weak fairness;   *)
(* a pass that leaves the bracket as it was repeats for ever.              *)

\* the calls drawn: brackets from 0 or 1 up to 3, 4 or 5 with feps = 1,
\* which hold the neighbouring floats 2 and 3 and 4 and 5
FzLiveInputs ==
    {z \in FzInputs : z.f0 <= 1 /\ z.f1 \in 3..5 /\ z.feps = 1}

InitFZLive ==
    /\ fz \in FzLiveInputs
    /\ cbp \in {[kind |-> "free", nc |-> n] : n \in 1..2}
    /\ cb = <<>>
    /\ gaps = <<>>
    /\ dres = NoResult
    /\ mass = MassNone
    /\ ev = <<>>
    /\ app = AppNone
    /\ det = DetIdle

SpecFZLive == InitFZLive /\ [][NextFZ]_vars /\ WF_vars(FZStep)

\* the bracket of a call in progress
BracketOrdered(z) == z.f0 <= z.fm /\ z.fm < z.fp /\ z.fp <= z.f1

\* between z and z2 exactly one end of the bracket moved, to the midpoint
OneEndMoved(z, z2) ==
    LET f == Midpoint(z.fm, z.fp)
    IN  \/ z2.fm = f /\ z2.fm # z.fm /\ z2.fp = z.fp
        \/ z2.fp = f /\ z2.fp # z.fp /\ z2.fm = z.fm

\* C24: for every f0 < f1, feps > 0, zeps >= 0, either mode and every
\* callback, the bracket of find_zero keeps f0 <= fm < fp <= f1, each pass
\* that does not return moves exactly one end to the midpoint, and the
\* call eventually returns.
C24_Terminates ==
    /\ [](fz.st = "run" => BracketOrdered(fz))
    /\ [][(fz.st = "run" /\ fz'.st = "run") => OneEndMoved(fz, fz')]_vars
    /\ <>(fz.st = "ret")

----------------------------------------------------------------------------
(* Claims about mass tensors with a single eigenvalue.                     *)

\* the kinds describe_gaps gave are all among ks
KindsAmong(ks) ==
    \A i \in 1..Len(dres.kinds) :
        \A j \in 1..Len(dres.kinds[i].items) : dres.kinds[i].items[j] \in ks

\* C25: with one eigenvalue per frequency, in normal mode every pair
\* appended has gmin.flag = gmax.flag, a find_zero call in mode 0 returns
\* the flag the call in mode 1 returned on the same bracket, and
\* describe_gaps returns only the kinds 'p', 's' and 'swp'.
C25_SingleEigenvalue ==
    (cbp.kind = "free" /\ cbp.nc = 1 /\ det.pc # "idle"
     /\ det.gap_kind = "normal") =>
        /\ \A i \in 1..Len(gaps) :
            gaps[i].items[1][1][1] = gaps[i].items[1][2][1]
        /\ (det.pc = "fzmin" /\ fz.st = "ret") => fz.ret[1] = det.gmax[1]
        /\ det.pc # "raised"
        /\ det.pc = "done" => KindsAmong({"p", "s", "swp"})

\* a returned run with one eigenvalue in which both searches were made on
\* both intervals, giving flags (0, 0) on one and (2, 2) on the other
C25_Witness ==
    /\ det.pc = "done"
    /\ cbp.nc = 1
    /\ det.gap_kind = "normal"
    /\ Len(gaps) = 2
    /\ \A i \in 1..2 : Len(det.logs_freqs[i]) = Len(SamplesOf(i)) + 2
    /\ \E i \in 1..2 : FlagsOf(gaps[i].items[1]) = <<0, 0>>
    /\ \E i \in 1..2 : FlagsOf(gaps[i].items[1]) = <<2, 2>>

====
